---- MODULE Spec2Model ----
(***************************************************************************)
(* The credential-profile vault of gcp_auth (src/src/gcp_auth/vault.py,    *)
(* driven by the commands of src/src/gcp_auth/main.py).                    *)
(*                                                                         *)
(* The filesystem is the state: the profile directories under PROFILES_DIR *)
(* with the ADC file each may hold, the Active Credential Slot             *)
(* (DEFAULT_ADC_PATH) and the gcloud configurations.  Every command is a   *)
(* sequence of steps, one action per step of the code; the exit status of  *)
(* each gcloud subprocess and the outcome of each file copy are chosen by  *)
(* the environment.                                                        *)
(***************************************************************************)
EXTENDS Integers, Sequences, FiniteSets, TLC

\* How many distinct credential blobs the ADC logins of one run can produce.
MaxCred == 3

\* The profile names the commands are called with (Profile.name).
Names == {"a", "b"}

\* A regular file lying in PROFILES_DIR (a .DS_Store, a note): not a profile.
StrayEntry == "stray-file"

\* The gcloud configuration that is active before the tool is ever used.
DefaultConfig == "default"

\* "No such file": a path that does not exist.
NoFile == 0

Creds == 1..MaxCred

Commands == {"create", "list", "activate", "delete"}

VARIABLES
    dirs,          \* the names that have a directory under PROFILES_DIR
    stored,        \* stored[n]: content of PROFILES_DIR/n/ADC_FILENAME, or NoFile
    stray,         \* whether PROFILES_DIR holds a non-directory entry
    slot,          \* content of DEFAULT_ADC_PATH, or NoFile
    configs,       \* the gcloud configurations named after profiles
    activeConfig,  \* the active gcloud configuration
    nextCred,      \* the blob the next successful ADC login writes
    pc,            \* the step the running command is at, "idle" between commands
    op,            \* the running (or last) command: [cmd, name, force], and what held
                   \* when it began: had (the profile had its credential file),
                   \* active (the active gcloud configuration) and installed
                   \* (gcloud was found on the PATH)
    result,        \* how the last command ended, "running" while it runs
    createdNew,    \* register's local created_new_config
    cmds,          \* history: the gcloud commands this command ran, with their success
    listed         \* what the last list command printed

vars == <<dirs, stored, stray, slot, configs, activeConfig, nextCred,
          pc, op, result, createdNew, cmds, listed>>

\* The filesystem: the vault, the slot and the provider's configurations.
fsVars == <<dirs, stored, stray, slot, configs, activeConfig, nextCred>>

----------------------------------------------------------------------------
(* Process Runner: gcp_auth.utils.run_command *)

\* run_command(argv, reraise=...): whether a subprocess that ended with
\* success `ok` makes run_command raise.  A non-zero exit raises only with
\* reraise; without it the caller gets the status back.
Raised(ok, reraise) == ~ok /\ reraise

\* The value of reraise when the caller does not pass it.
DefaultReraise == FALSE

(* External Login Provider: what each gcloud subcommand can do *)

\* `gcloud config configurations create n` fails when n exists, and can
\* fail otherwise (a name gcloud rejects).
CreateOutcomes(n) == IF n \in configs THEN {FALSE} ELSE BOOLEAN

\* `gcloud config configurations activate n` can only succeed when n exists.
ActivateOutcomes(n) == IF n \in configs THEN BOOLEAN ELSE {FALSE}

\* `gcloud auth application-default login` writes a fresh blob on success.
AdcOutcomes == IF nextCred <= MaxCred THEN BOOLEAN ELSE {FALSE}

Ran(cmd, ok) == [cmd |-> cmd, ok |-> ok]

----------------------------------------------------------------------------
(* Vault Store helpers *)

\* PROFILES_DIR exists once the vault object is constructed.
ProfilesDirExists == TRUE

\* profile_dir.exists()
ProfileExists(n) == n \in dirs

\* (profile_dir / ADC_FILENAME).exists()
CredentialsExist(n) == n \in dirs /\ stored[n] # NoFile

\* DEFAULT_ADC_PATH.exists()
AdcFileExists(s) == s # NoFile

\* The entries of PROFILES_DIR.
Entries == dirs \cup (IF stray THEN {StrayEntry} ELSE {})

\* p.is_dir()
IsDir(p) == p \in dirs

\* list_profiles() without its is_dir() filter.
ListProfilesNoDirFilter == IF ~ProfilesDirExists THEN {} ELSE Entries

\* list_profiles(): the names of the directory entries of PROFILES_DIR.
ListProfiles == IF ~ProfilesDirExists THEN {} ELSE {p \in Entries : IsDir(p)}

----------------------------------------------------------------------------
Init ==
    /\ dirs = {}
    /\ stored = [n \in Names |-> NoFile]
    /\ stray \in BOOLEAN
    /\ slot = NoFile
    /\ configs = {}
    /\ activeConfig = DefaultConfig
    /\ nextCred = 1
    /\ pc = "idle"
    /\ op = [cmd |-> "none", name |-> "a", force |-> FALSE,
             had |-> FALSE, active |-> DefaultConfig, installed |-> TRUE]
    /\ result = "none"
    /\ createdNew = FALSE
    /\ cmds = <<>>
    /\ listed = {}

\* The command ends: with "ok", or with the name of its error.
Finish(r) == pc' = "idle" /\ result' = r

FirstStep(cmd) ==
    CASE cmd = "create" -> "clean"
      [] cmd = "list" -> "list"
      [] cmd = "activate" -> "act_check"
      [] cmd = "delete" -> "del"

\* A command that runs its vault operation without looking for gcloud first.
InvokeNoCheck(cmd, n, f) ==
    /\ pc = "idle"
    /\ \E installed \in BOOLEAN :
         op' = [cmd |-> cmd, name |-> n, force |-> f,
                had |-> CredentialsExist(n), active |-> activeConfig,
                installed |-> installed]
    /\ cmds' = <<>>
    /\ createdNew' = FALSE
    /\ listed' = {}
    /\ pc' = FirstStep(cmd)
    /\ result' = "running"
    /\ UNCHANGED fsVars

\* A command of main.py starts: handle_errors checks that gcloud is on the
\* PATH (shutil.which, recorded as op.installed) before the vault operation
\* runs; the RuntimeError ends the command.
Invoke(cmd, n, f) ==
    /\ pc = "idle"
    /\ cmds' = <<>>
    /\ createdNew' = FALSE
    /\ listed' = {}
    /\ \E installed \in BOOLEAN :
         /\ op' = [cmd |-> cmd, name |-> n, force |-> f,
                   had |-> CredentialsExist(n), active |-> activeConfig,
                   installed |-> installed]
         /\ IF installed
            THEN pc' = FirstStep(cmd) /\ result' = "running"
            ELSE Finish("ProviderNotInstalled")
    /\ UNCHANGED fsVars

----------------------------------------------------------------------------
(* register(profile, force): one action per step *)

\* _create_clean_profile that, with force, removes PROFILES_DIR as a whole
\* before making the profile's directory.
RegCleanProfileWipesAll ==
    /\ pc = "clean"
    /\ IF ProfileExists(op.name) /\ ~op.force
       THEN /\ Finish("ProfileAlreadyExists")
            /\ UNCHANGED <<dirs, stored>>
       ELSE /\ dirs' = IF ProfileExists(op.name) THEN {op.name}
                                                ELSE dirs \cup {op.name}
            /\ stored' = IF ProfileExists(op.name)
                             THEN [n \in Names |-> NoFile]
                             ELSE [stored EXCEPT ![op.name] = NoFile]
            /\ pc' = "config"
            /\ UNCHANGED result
    /\ UNCHANGED <<stray, slot, configs, activeConfig, nextCred,
                   op, createdNew, cmds, listed>>

\* _create_clean_profile that overwrites whether or not force is given.
RegCleanProfileNoGuard ==
    /\ pc = "clean"
    /\ dirs' = dirs \cup {op.name}
    /\ stored' = [stored EXCEPT ![op.name] = NoFile]
    /\ pc' = "config"
    /\ UNCHANGED <<result, stray, slot, configs, activeConfig, nextCred,
                   op, createdNew, cmds, listed>>

\* _create_clean_profile: refuse an existing profile without force; with
\* force remove its directory and all it holds; then make the directory.
RegCleanProfile ==
    /\ pc = "clean"
    /\ IF ProfileExists(op.name) /\ ~op.force
       THEN /\ Finish("ProfileAlreadyExists")
            /\ UNCHANGED <<dirs, stored>>
       ELSE /\ dirs' = dirs \cup {op.name}
            /\ stored' = [stored EXCEPT ![op.name] = NoFile]
            /\ pc' = "config"
            /\ UNCHANGED result
    /\ UNCHANGED <<stray, slot, configs, activeConfig, nextCred,
                   op, createdNew, cmds, listed>>

\* _create_gcloud_configuration that returns True on both branches.
RegCreateConfigAlwaysNew ==
    /\ pc = "config"
    /\ \E okCreate \in CreateOutcomes(op.name) :
         IF ~Raised(okCreate, TRUE)
         THEN /\ configs' = IF okCreate THEN configs \cup {op.name} ELSE configs
              /\ activeConfig' = IF okCreate THEN op.name ELSE activeConfig
              /\ cmds' = Append(cmds, Ran("config-create", okCreate))
         ELSE \E okAct \in ActivateOutcomes(op.name) :
              /\ activeConfig' = IF okAct THEN op.name ELSE activeConfig
              /\ cmds' = cmds \o <<Ran("config-create", okCreate),
                                   Ran("config-activate", okAct)>>
              /\ UNCHANGED configs
    /\ createdNew' = TRUE
    /\ pc' = "login"
    /\ UNCHANGED <<result, dirs, stored, stray, slot, nextCred,
                   op, listed>>

\* _create_gcloud_configuration: create the configuration (reraise=True);
\* on CalledProcessError activate it instead (default reraise) and return
\* False.  gcloud activates a configuration it creates.
RegCreateConfig ==
    /\ pc = "config"
    /\ \E okCreate \in CreateOutcomes(op.name) :
         IF ~Raised(okCreate, TRUE)
         THEN /\ configs' = IF okCreate THEN configs \cup {op.name} ELSE configs
              /\ activeConfig' = IF okCreate THEN op.name ELSE activeConfig
              /\ cmds' = Append(cmds, Ran("config-create", okCreate))
              /\ createdNew' = TRUE
              /\ pc' = "login"
              /\ UNCHANGED result
         ELSE \E okAct \in ActivateOutcomes(op.name) :
              /\ activeConfig' = IF okAct THEN op.name ELSE activeConfig
              /\ cmds' = cmds \o <<Ran("config-create", okCreate),
                                   Ran("config-activate", okAct)>>
              /\ createdNew' = FALSE
              /\ UNCHANGED configs
              /\ IF Raised(okAct, DefaultReraise)
                 THEN Finish("ExternalCommandFailed")
                 ELSE pc' = "adc" /\ UNCHANGED result
    /\ UNCHANGED <<dirs, stored, stray, slot, nextCred,
                   op, listed>>

\* _gcloud_login, run when created_new_config: `gcloud auth login` with the
\* default reraise; its result is not looked at.
RegLogin ==
    /\ pc = "login"
    /\ createdNew
    /\ \E ok \in BOOLEAN :
         /\ cmds' = Append(cmds, Ran("auth-login", ok))
         /\ IF Raised(ok, DefaultReraise)
            THEN Finish("ExternalCommandFailed")
            ELSE pc' = "adc" /\ UNCHANGED result
    /\ UNCHANGED <<fsVars, op, createdNew, listed>>

\* _gcloud_adc_login without the check that DEFAULT_ADC_PATH exists.
RegAdcLoginNoFileCheck ==
    /\ pc = "adc"
    /\ \E ok \in AdcOutcomes :
         /\ slot' = IF ok THEN nextCred ELSE slot
         /\ nextCred' = IF ok THEN nextCred + 1 ELSE nextCred
         /\ cmds' = Append(cmds, Ran("adc-login", ok))
         /\ IF Raised(ok, DefaultReraise)
            THEN Finish("ExternalCommandFailed")
            ELSE pc' = "capture" /\ UNCHANGED result
    /\ UNCHANGED <<dirs, stored, stray, configs, activeConfig,
                   op, createdNew, listed>>

\* _gcloud_adc_login: `gcloud auth application-default login` with the
\* default reraise, then sys.exit(1) when DEFAULT_ADC_PATH does not exist.
RegAdcLogin ==
    /\ pc = "adc"
    /\ \E ok \in AdcOutcomes :
         /\ slot' = IF ok THEN nextCred ELSE slot
         /\ nextCred' = IF ok THEN nextCred + 1 ELSE nextCred
         /\ cmds' = Append(cmds, Ran("adc-login", ok))
         /\ IF Raised(ok, DefaultReraise)
            THEN Finish("ExternalCommandFailed")
            ELSE IF ~AdcFileExists(slot')
                 THEN Finish("CredentialsNotGenerated")
                 ELSE pc' = "capture" /\ UNCHANGED result
    /\ UNCHANGED <<dirs, stored, stray, configs, activeConfig,
                   op, createdNew, listed>>

\* _capture_adc that removes the profile directory when the copy fails.
RegCaptureCleansUp ==
    /\ pc = "capture"
    /\ \E copied \in BOOLEAN :
         IF copied /\ AdcFileExists(slot) /\ ProfileExists(op.name)
         THEN /\ stored' = [stored EXCEPT ![op.name] = slot]
              /\ Finish("ok")
              /\ UNCHANGED dirs
         ELSE /\ dirs' = dirs \ {op.name}
              /\ Finish("IOError")
              /\ UNCHANGED stored
    /\ UNCHANGED <<stray, slot, configs, activeConfig, nextCred,
                   op, createdNew, cmds, listed>>

\* _capture_adc: shutil.copy(DEFAULT_ADC_PATH, profile_dir / ADC_FILENAME);
\* a copy that fails raises, which ends the command with an error.
RegCapture ==
    /\ pc = "capture"
    /\ \E copied \in BOOLEAN :
         IF copied /\ AdcFileExists(slot) /\ ProfileExists(op.name)
         THEN /\ stored' = [stored EXCEPT ![op.name] = slot]
              /\ Finish("ok")
         ELSE /\ Finish("IOError")
              /\ UNCHANGED stored
    /\ UNCHANGED <<dirs, stray, slot, configs, activeConfig, nextCred,
                   op, createdNew, cmds, listed>>

----------------------------------------------------------------------------
(* set_active_profile(profile) *)

\* set_active_profile without the check of the credentials file.
ActCheckNoCredentialCheck ==
    /\ pc = "act_check"
    /\ IF ~ProfileExists(op.name)
       THEN Finish("ProfileNotFound")
       ELSE pc' = "act_switch" /\ UNCHANGED result
    /\ UNCHANGED <<fsVars, op, createdNew, cmds, listed>>

\* The two precondition checks, each ending in sys.exit(1).
ActCheck ==
    /\ pc = "act_check"
    /\ IF ~ProfileExists(op.name)
       THEN Finish("ProfileNotFound")
       ELSE IF ~CredentialsExist(op.name)
            THEN Finish("CredentialsMissing")
            ELSE pc' = "act_switch" /\ UNCHANGED result
    /\ UNCHANGED <<fsVars, op, createdNew, cmds, listed>>

\* _switch_gcloud_configuration: activate the configuration with the default
\* reraise; its result is not looked at.
ActSwitch ==
    /\ pc = "act_switch"
    /\ \E ok \in ActivateOutcomes(op.name) :
         /\ activeConfig' = IF ok THEN op.name ELSE activeConfig
         /\ cmds' = Append(cmds, Ran("config-activate", ok))
         /\ IF Raised(ok, DefaultReraise)
            THEN Finish("ExternalCommandFailed")
            ELSE pc' = "act_override" /\ UNCHANGED result
    /\ UNCHANGED <<dirs, stored, stray, slot, configs, nextCred,
                   op, createdNew, listed>>

\* _override_adc that reports success without writing DEFAULT_ADC_PATH.
ActOverrideNoCopy ==
    /\ pc = "act_override"
    /\ Finish("ok")
    /\ UNCHANGED <<fsVars, op, createdNew, cmds, listed>>

\* _override_adc that switches the configuration back when the copy fails.
ActOverrideRollsBack ==
    /\ pc = "act_override"
    /\ \E copied \in BOOLEAN :
         IF copied /\ CredentialsExist(op.name)
         THEN /\ slot' = stored[op.name]
              /\ Finish("ok")
              /\ UNCHANGED activeConfig
         ELSE /\ activeConfig' = op.active
              /\ Finish("IOError")
              /\ UNCHANGED slot
    /\ UNCHANGED <<dirs, stored, stray, configs, nextCred,
                   op, createdNew, cmds, listed>>

\* _override_adc: shutil.copy(credentials, DEFAULT_ADC_PATH); any exception
\* is printed and the process exits with 1.
ActOverride ==
    /\ pc = "act_override"
    /\ \E copied \in BOOLEAN :
         IF copied /\ CredentialsExist(op.name)
         THEN slot' = stored[op.name] /\ Finish("ok")
         ELSE UNCHANGED slot /\ Finish("IOError")
    /\ UNCHANGED <<dirs, stored, stray, configs, activeConfig, nextCred,
                   op, createdNew, cmds, listed>>

----------------------------------------------------------------------------
(* delete_profile(profile) and list_profiles() *)

\* delete_profile that removes without checking that the directory exists.
DeleteProfileNoCheck ==
    /\ pc = "del"
    /\ dirs' = dirs \ {op.name}
    /\ stored' = [stored EXCEPT ![op.name] = NoFile]
    /\ Finish("ok")
    /\ UNCHANGED <<stray, slot, configs, activeConfig, nextCred,
                   op, createdNew, cmds, listed>>

\* delete_profile that also removes DEFAULT_ADC_PATH.
DeleteProfileClearsSlot ==
    /\ pc = "del"
    /\ IF ~ProfileExists(op.name)
       THEN /\ Finish("ProfileNotFound")
            /\ UNCHANGED <<dirs, stored, slot>>
       ELSE /\ dirs' = dirs \ {op.name}
            /\ stored' = [stored EXCEPT ![op.name] = NoFile]
            /\ slot' = NoFile
            /\ Finish("ok")
    /\ UNCHANGED <<stray, configs, activeConfig, nextCred,
                   op, createdNew, cmds, listed>>

\* delete_profile: sys.exit(1) when the directory is absent, else rmtree.
DeleteProfile ==
    /\ pc = "del"
    /\ IF ~ProfileExists(op.name)
       THEN /\ Finish("ProfileNotFound")
            /\ UNCHANGED <<dirs, stored>>
       ELSE /\ dirs' = dirs \ {op.name}
            /\ stored' = [stored EXCEPT ![op.name] = NoFile]
            /\ Finish("ok")
    /\ UNCHANGED <<stray, slot, configs, activeConfig, nextCred,
                   op, createdNew, cmds, listed>>

\* A list command that treats an empty vault as an error.
ListCommandFailsOnEmpty ==
    /\ pc = "list"
    /\ listed' = ListProfiles
    /\ IF ListProfiles = {} THEN Finish("IOError") ELSE Finish("ok")
    /\ UNCHANGED <<fsVars, op, createdNew, cmds>>

\* The list command: prints the name of every profile list_profiles returns.
ListCommand ==
    /\ pc = "list"
    /\ listed' = ListProfiles
    /\ Finish("ok")
    /\ UNCHANGED <<fsVars, op, createdNew, cmds>>

----------------------------------------------------------------------------
Next ==
    \/ \E cmd \in Commands, n \in Names, f \in BOOLEAN : Invoke(cmd, n, f)
    \/ RegCleanProfile
    \/ RegCreateConfig
    \/ RegLogin
    \/ RegAdcLogin
    \/ RegCapture
    \/ ActCheck
    \/ ActSwitch
    \/ ActOverride
    \/ DeleteProfile
    \/ ListCommand

Spec == Init /\ [][Next]_vars

TypeOK ==
    /\ dirs \subseteq Names
    /\ stored \in [Names -> Creds \cup {NoFile}]
    /\ slot \in Creds \cup {NoFile}
    /\ configs \subseteq Names
    /\ activeConfig \in Names \cup {DefaultConfig}
    /\ nextCred \in 1..(MaxCred + 1)
    /\ \A n \in Names : n \notin dirs => stored[n] = NoFile

----------------------------------------------------------------------------
(* Properties *)

\* A command has ended (the state is one between commands).
Ended(cmd) == pc = "idle" /\ op.cmd = cmd /\ result # "ProviderNotInstalled"

\* This command's ADC login succeeded, so it wrote a fresh blob to the slot.
AdcSucceeded == \E i \in DOMAIN cmds : cmds[i] = Ran("adc-login", TRUE)

\* The slot is absent or equals the credential file of some profile directory.
SlotBacked == slot = NoFile \/ \E n \in dirs : stored[n] = slot

\* C1: a successful activate(name) leaves the slot equal to the credential
\* stored under profiles/name and the external configuration switched to name.
C1_ActivateSwitchesBoth ==
    (Ended("activate") /\ result = "ok")
        => /\ slot # NoFile
           /\ slot = stored[op.name]
           /\ activeConfig = op.name

\* C2: register(name, force=false) on a name whose directory exists fails with
\* ProfileAlreadyExists before any external command has run, and the vault,
\* the slot and the external configuration stay as they were.
C2_OverwriteGuard ==
    [][(pc = "clean" /\ op.name \in dirs /\ ~op.force)
         => /\ pc' = "idle"
            /\ result' = "ProfileAlreadyExists"
            /\ cmds' = <<>>
            /\ UNCHANGED fsVars]_vars

C2_Witness ==
    /\ Ended("create")
    /\ result = "ProfileAlreadyExists"
    /\ stored[op.name] # NoFile
    /\ slot # NoFile

\* C3: whenever register(name, force) succeeds, profiles/name holds the
\* credential this run's ADC login produced (not one an earlier login or
\* activation left in the slot), the slot holds the same content, and the
\* external configuration name exists and is active.
C3_RegisterNetEffect ==
    (Ended("create") /\ result = "ok")
        => /\ op.name \in dirs
           /\ AdcSucceeded
           /\ stored[op.name] = nextCred - 1
           /\ slot = stored[op.name]
           /\ op.name \in configs
           /\ activeConfig = op.name

\* C4: in every state between commands the slot is absent or equals the
\* credential file stored in some profile directory.
C4_SlotAlwaysBacked == pc = "idle" => SlotBacked

\* C4, amended: a successful register(name) or activate(name) ends with the
\* slot present and equal to the credential stored in profiles/name; list,
\* every activate (also one that fails) and a register refused with
\* ProfileAlreadyExists leave the slot backed by a stored credential when it
\* was.  Only delete and a register that fails after step 1 can leave the slot
\* holding a credential no profile directory stores.
C4_SlotBackedAfterSuccess ==
    [][(pc # "idle" /\ pc' = "idle")
         => /\ (result' = "ok" /\ op.cmd \in {"create", "activate"})
                  => (slot' # NoFile /\ slot' = stored'[op.name])
            /\ (SlotBacked /\ (op.cmd \in {"activate", "list"}
                               \/ result' = "ProfileAlreadyExists"))
                  => SlotBacked']_vars

C4_Witness ==
    /\ Ended("activate")
    /\ result = "ok"
    /\ slot = stored[op.name]
    /\ \E m \in dirs : stored[m] \notin {NoFile, slot}

\* C5: a profile that was fully registered keeps exactly one credential file
\* in every state reached after a command has ended, as long as its directory
\* has not been deleted; in particular a register(name, force=true) that fails
\* after step 1 does not leave it without its credential file.
C5_RegisteredKeepsCredential ==
    (pc = "idle" /\ op.had /\ op.name \in dirs) => stored[op.name] # NoFile

\* C6: no register or delete ends with the external configuration switched to
\* a profile while the slot still holds another profile's credential, or with
\* the slot replaced while the external configuration names another profile.
C6_NeverSwitchedIndependently ==
    (pc = "idle" /\ op.cmd \in {"create", "delete"})
        => /\ ~ /\ activeConfig # op.active
                /\ ~AdcSucceeded
                /\ slot # NoFile
                /\ \E m \in dirs \ {op.name} : stored[m] = slot
           /\ ~ /\ AdcSucceeded
                /\ activeConfig \in Names \ {op.name}

\* C7: activate(name) on a directory that holds no credential file fails with
\* CredentialsMissing, runs no external command and leaves the slot, the
\* external configuration and the vault as they were.
C7_MissingCredentials ==
    [][(pc = "act_check" /\ op.name \in dirs /\ stored[op.name] = NoFile)
         => /\ pc' = "idle"
            /\ result' = "CredentialsMissing"
            /\ cmds' = <<>>
            /\ UNCHANGED fsVars]_vars

C7_Witness ==
    /\ Ended("activate")
    /\ result = "CredentialsMissing"
    /\ op.name \in dirs
    /\ slot # NoFile

\* C8: activate(name) and delete(name) on a name without a profile directory
\* fail with ProfileNotFound and change nothing.
C8_UnknownProfile ==
    [][(pc \in {"act_check", "del"} /\ op.name \notin dirs)
         => /\ pc' = "idle"
            /\ result' = "ProfileNotFound"
            /\ cmds' = <<>>
            /\ UNCHANGED fsVars]_vars

C8_Witness ==
    /\ Ended("delete")
    /\ result = "ProfileNotFound"
    /\ dirs # {}
    /\ slot # NoFile

\* C9: delete(name) on an existing profile removes its directory and all it
\* holds, so list() no longer returns name, and leaves the slot, the external
\* configuration and every other profile as they were.
C9_DeleteFrame ==
    [][(pc = "del" /\ op.name \in dirs)
         => /\ pc' = "idle"
            /\ result' = "ok"
            /\ op.name \notin dirs'
            /\ stored'[op.name] = NoFile
            /\ op.name \notin ListProfiles'
            /\ UNCHANGED <<slot, configs, activeConfig, stray>>
            /\ \A m \in Names \ {op.name} :
                 (m \in dirs' <=> m \in dirs) /\ stored'[m] = stored[m]]_vars

\* The deleted profile was the one whose credentials are in the slot.
C9_Witness ==
    /\ Ended("delete")
    /\ result = "ok"
    /\ op.had
    /\ op.name \notin dirs
    /\ activeConfig = op.name
    /\ slot # NoFile
    /\ \A m \in dirs : stored[m] # slot

\* C10: list() returns exactly the names that have a directory under profiles
\* (entries that are not directories are left out), nothing for an empty
\* vault, and changes no state.
C10_ListExact ==
    [][(pc = "list")
         => /\ pc' = "idle"
            /\ result' = "ok"
            /\ listed' = dirs
            /\ (dirs = {} => listed' = {})
            /\ UNCHANGED fsVars]_vars

\* list() after a register("a") on an empty vault, beside a stray file.
C10_Witness ==
    /\ Ended("list")
    /\ result = "ok"
    /\ stray
    /\ listed = {"a"}
    /\ stored["a"] # NoFile

\* C11: every command checks for the External Login Provider once, before its
\* operation starts; when the provider is absent the command fails with
\* ProviderNotInstalled, no step of the operation runs and the vault, the slot
\* and the external configuration stay as they were.
C11_ProviderChecked ==
    [][/\ (pc = "idle" /\ ~op'.installed)
            => /\ pc' = "idle"
               /\ result' = "ProviderNotInstalled"
               /\ cmds' = <<>>
               /\ UNCHANGED fsVars
       /\ (pc' # "idle") => op'.installed]_vars

C11_Witness ==
    /\ pc = "idle"
    /\ op.cmd = "create"
    /\ op.force
    /\ ~op.installed
    /\ result = "ProviderNotInstalled"
    /\ stored[op.name] # NoFile
    /\ slot # NoFile

\* C12: the list command has no error condition besides those of the store:
\* whenever the profiles directory can be read it succeeds.
C12_ListNeverFails ==
    (pc = "idle" /\ op.cmd = "list") => result = "ok"

\* C12, amended: the list command fails only on a store I/O error or, like
\* every command, with ProviderNotInstalled when gcloud is not on the PATH;
\* when the provider is present and the profiles directory can be read it
\* succeeds, whatever the vault holds.
C12_ListFailsOnlyWithoutProvider ==
    (pc = "idle" /\ op.cmd = "list")
        => /\ result \in {"ok", "ProviderNotInstalled"}
           /\ op.installed <=> result = "ok"

\* list on a vault that holds a registered profile and a directory a failed
\* register left empty.
C12_Witness ==
    /\ pc = "idle"
    /\ op.cmd = "list"
    /\ result = "ok"
    /\ listed = {"a", "b"}
    /\ \E n \in dirs : stored[n] = NoFile

\* C13: in register a failed CLI login or a failed ADC login ends the command
\* with a failure and no later step runs: no external command follows the
\* failed one and no credential file is copied into the profile directory.
C13_FailedLoginAborts ==
    \A i \in DOMAIN cmds :
        (cmds[i].cmd \in {"auth-login", "adc-login"} /\ ~cmds[i].ok)
            => /\ i = Len(cmds)
               /\ pc = "idle"
               /\ result \notin {"ok", "running"}
               /\ stored[op.name] = NoFile

\* The external commands a register has run, in order.
CmdNames == [i \in DOMAIN cmds |-> cmds[i].cmd]

\* C14: in register the CLI login runs if and only if creating the external
\* configuration succeeded; when the creation fails the configuration is
\* activated instead and the CLI login is skipped; in both branches the ADC
\* login runs afterwards, and the credential is captured only after the ADC
\* login and the check that the credential file is present.
C14_RegisterOrder ==
    op.cmd = "create" =>
        /\ pc \in {"clean", "config"} => cmds = <<>>
        /\ pc = "login" => cmds = <<Ran("config-create", TRUE)>>
        /\ pc = "adc" =>
             \/ /\ CmdNames = <<"config-create", "auth-login">>
                /\ cmds[1].ok
             \/ /\ CmdNames = <<"config-create", "config-activate">>
                /\ ~cmds[1].ok
        /\ (pc = "capture" \/ (pc = "idle" /\ result \in
                  {"ok", "IOError", "CredentialsNotGenerated"})) =>
             \/ /\ CmdNames = <<"config-create", "auth-login", "adc-login">>
                /\ cmds[1].ok
             \/ /\ CmdNames = <<"config-create", "config-activate", "adc-login">>
                /\ ~cmds[1].ok
        /\ (pc = "capture" \/ (pc = "idle" /\ result \in {"ok", "IOError"})) =>
             slot # NoFile
        /\ pc \in {"config", "login", "adc", "capture"} => stored[op.name] = NoFile
        /\ (pc = "idle" /\ result = "ok") => stored[op.name] = slot

\* A register that found the configuration, activated it and skipped the login.
C14_Witness ==
    /\ pc = "idle"
    /\ op.cmd = "create"
    /\ result = "ok"
    /\ cmds = <<Ran("config-create", FALSE), Ran("config-activate", TRUE),
                Ran("adc-login", TRUE)>>

\* C15: in register, when the credential file is absent at DEFAULT_ADC_PATH
\* after the ADC login, the command ends with CredentialsNotGenerated, the
\* copy step is not run and the profile directory holds no credential file.
C15_CredentialsNotGenerated ==
    [][(pc = "adc" /\ slot' = NoFile)
         => /\ pc' = "idle"
            /\ result' = "CredentialsNotGenerated"
            /\ op.name \in dirs'
            /\ stored'[op.name] = NoFile
            /\ UNCHANGED <<dirs, stored>>]_vars

C15_Witness ==
    /\ pc = "idle"
    /\ op.cmd = "create"
    /\ result = "CredentialsNotGenerated"
    /\ cmds[Len(cmds)] = Ran("adc-login", FALSE)
    /\ op.name \in dirs
    /\ stored[op.name] = NoFile

\* C16: when the copy into the slot (step b of activate) fails, activate ends
\* with a failure, the switch of step (a) is not rolled back (the external
\* configuration stays on name) and the vault is unchanged.
C16_CopyFailureKeepsSwitch ==
    [][(pc = "act_override" /\ result' # "ok")
         => /\ pc' = "idle"
            /\ result' = "IOError"
            /\ UNCHANGED <<dirs, stored, stray, configs, activeConfig>>
            /\ cmds[Len(cmds)] = Ran("config-activate", TRUE)
                 => activeConfig' = op.name]_vars

\* The failed activate had switched the configuration away from another one.
C16_Witness ==
    /\ pc = "idle"
    /\ op.cmd = "activate"
    /\ result = "IOError"
    /\ op.active # op.name
    /\ activeConfig = op.name
    /\ slot # stored[op.name]

\* C17: when the activation of the external configuration (step a of
\* activate) fails, activate ends with a failure and step (b) does not run,
\* so the slot is not overwritten.
C17_FailedSwitchAborts ==
    (op.cmd = "activate" /\ cmds # <<>> /\ ~cmds[1].ok)
        => /\ pc = "idle"
           /\ result = "ExternalCommandFailed"

\* C18: register(a, force) and activate(a), whatever their outcome, never
\* create, remove or modify the directory or the stored credential of another
\* profile b; hence an activate that succeeds puts into the slot exactly the
\* content profiles/a held when the command began, whichever registrations
\* and activations of other profiles came in between.
C18_OtherProfilesUntouched ==
    [][(pc # "idle" /\ op.cmd \in {"create", "activate"})
         => /\ \A m \in Names \ {op.name} :
                 /\ m \in dirs' <=> m \in dirs
                 /\ stored'[m] = stored[m]
            /\ op.cmd = "activate"
                 => /\ UNCHANGED <<dirs, stored>>
                    /\ (result' = "ok" => slot' = stored[op.name])]_vars

\* A forced re-registration of one profile beside another registered one.
C18_Witness ==
    /\ pc = "idle"
    /\ op.cmd = "create"
    /\ op.force
    /\ op.had
    /\ result = "ok"
    /\ \E m \in dirs \ {op.name} : stored[m] \notin {NoFile, slot}

\* C19: a register(name, force=false) of a new name that fails after step 1
\* does not remove the directory it created: the empty directory remains,
\* list() returns name, and a later register(name, force=false) fails with
\* ProfileAlreadyExists; only delete removes the directory.
C19_FailedRegisterLeavesDirectory ==
    [][/\ (pc # "idle" /\ pc' = "idle" /\ op.cmd = "create" /\ ~op.force
           /\ result' \notin {"ok", "ProfileAlreadyExists"})
            => /\ op.name \in dirs'
               /\ stored'[op.name] = NoFile
               /\ op.name \in ListProfiles'
       /\ (pc = "clean" /\ ~op.force /\ op.name \in dirs
           /\ stored[op.name] = NoFile)
            => /\ result' = "ProfileAlreadyExists"
               /\ UNCHANGED <<dirs, stored>>
       /\ \A n \in Names :
            (n \in dirs /\ n \notin dirs') => (pc = "del" /\ op.name = n)]_vars

\* The empty directory of a failed register made a later register fail.
C19_Witness ==
    /\ pc = "idle"
    /\ op.cmd = "create"
    /\ ~op.force
    /\ result = "ProfileAlreadyExists"
    /\ op.name \in dirs
    /\ stored[op.name] = NoFile
    /\ op.name \in ListProfiles

====
